---------------------------- MODULE Spec2Model ----------------------------
(***************************************************************************)
(* A model of the smlb demonstration notebooks:                            *)
(*   examples/mini_demo_learning_curve_panel.ipynb         (panel)         *)
(*   examples/mini_demo_learning_curve_friedman1979.ipynb  (Friedman)      *)
(*   examples/mini_demo_watercolor_pigments2019.ipynb      (watercolor)    *)
(*   the band-gap statistics notebook                      (band gaps)     *)
(* Each notebook is a sequence of cells; a cell, a function call or a      *)
(* step of a workflow run is an action.  The smlb library the notebooks    *)
(* call (samplers, workflow, plot) is not part of the sources; what the    *)
(* model needs of it is written down from the notebooks' narrative.        *)
(***************************************************************************)
EXTENDS Integers, Sequences, FiniteSets, TLC

VARIABLES
    pc,              \* position of the notebook being executed
    \* panel notebook, calc_split_sizes
    num_samples,     \* the argument (a dataset's size)
    num_validation,  \* first component of the result
    num_training,    \* second component of the result
    \* band-gap notebook
    bg1,             \* the global dataset: its samples('all')
    ds,              \* the argument of the last stats call
    printed,         \* what the last stats call printed
    \* watercolor notebook, sampling cell
    n,               \* dataset.num_samples
    m,               \* size of the validation subset
    training_sizes,  \* sizes of the training subsets
    \* notebooks that run a workflow
    nb,              \* the notebook's namespace: its global names
    workflow,        \* the LearningCurveRegression object last constructed
    fitted,          \* per learner class, the training set it was last fit to
    plots,           \* the LearningCurvePlot objects, by target
    prng_phase,      \* where in its period the library's generator starts
    os_entropy,      \* what this kernel session gives a generator without seed
    earlier          \* the results of an earlier execution of the notebook

splitVars == <<num_samples, num_validation, num_training>>
bandVars == <<bg1, ds, printed>>
waterVars == <<n, m, training_sizes>>
runVars == <<nb, workflow, fitted, plots, prng_phase, os_entropy, earlier>>

vars == <<pc, splitVars, bandVars, waterVars, runVars>>

\* what each notebook leaves alone
notSplit == <<bandVars, waterVars, runVars>>
notBand == <<splitVars, waterVars, runVars>>
notWater == <<splitVars, bandVars, runVars>>
notSizes == <<splitVars, bandVars, waterVars>>
session == <<prng_phase, os_entropy, earlier>>

None == "None"

\* a notebook that is not the one being executed holds nothing
SplitIdle == num_samples = None /\ num_validation = None /\ num_training = None
BandIdle == bg1 = None /\ ds = None /\ printed = None
WaterIdle == n = None /\ m = None /\ training_sizes = None

RunIdle ==
    /\ nb = None /\ workflow = None /\ fitted = None /\ plots = None
    /\ prng_phase = None /\ os_entropy = None /\ earlier = None

SplitAlone == BandIdle /\ WaterIdle /\ RunIdle
BandAlone == SplitIdle /\ WaterIdle /\ RunIdle
WaterAlone == SplitIdle /\ BandIdle /\ RunIdle
SizesIdle == SplitIdle /\ BandIdle /\ WaterIdle

(***************************************************************************)
(* Arithmetic.  np.logspace works on doubles and the products below do not *)
(* fit a 32-bit integer, so naturals are kept as little-endian sequences   *)
(* of limbs.                                                               *)
(***************************************************************************)
BigBase == 1000 * 1000

RECURSIVE BigMulCarry(_, _, _)
BigMulCarry(x, k, c) ==
    IF x = <<>>
    THEN IF c = 0 THEN <<>> ELSE <<c>>
    ELSE LET p == Head(x) * k + c
         IN  <<p % BigBase>> \o BigMulCarry(Tail(x), k, p \div BigBase)

BigMul(x, k) == BigMulCarry(x, k, 0)

RECURSIVE BigMulPow(_, _, _)
\* x * k^e
BigMulPow(x, k, e) == IF e = 0 THEN x ELSE BigMulPow(BigMul(x, k), k, e - 1)

RECURSIVE BigCmp(_, _)
\* -1, 0, 1 as x < y, x = y, x > y
BigCmp(x, y) ==
    IF x = <<>> /\ y = <<>>
    THEN 0
    ELSE LET hx == IF x = <<>> THEN 0 ELSE Head(x)
             tx == IF x = <<>> THEN <<>> ELSE Tail(x)
             hy == IF y = <<>> THEN 0 ELSE Head(y)
             ty == IF y = <<>> THEN <<>> ELSE Tail(y)
             c  == BigCmp(tx, ty)
         IN  IF c # 0 THEN c
             ELSE IF hx < hy THEN -1
             ELSE IF hx > hy THEN 1
             ELSE 0

Min(a, b) == IF a <= b THEN a ELSE b
Max(a, b) == IF a >= b THEN a ELSE b

RECURSIVE FloorRootSearch(_, _, _, _)
\* the largest s in lo..hi with s^e <= target (lo^e <= target is given)
FloorRootSearch(lo, hi, e, target) ==
    IF lo >= hi
    THEN lo
    ELSE LET mid == (lo + hi + 1) \div 2
         IN  IF BigCmp(BigMulPow(<<1>>, mid, e), target) <= 0
             THEN FloorRootSearch(mid, hi, e, target)
             ELSE FloorRootSearch(lo, mid - 1, e, target)

(***************************************************************************)
(* np.logspace(log10(first), log10(last), num, dtype=int)[i], i = 0..num-1 *)
(* The exact value v of entry i satisfies v^(num-1) = first^(num-1-i) *    *)
(* last^i; the cast to int truncates.                                      *)
(***************************************************************************)
LogspaceTarget(first, last, num, i) ==
    BigMulPow(BigMulPow(<<1>>, first, num - 1 - i), last, i)

LogspaceFloor(first, last, num, i) ==
    FloorRootSearch(Min(first, last), Max(first, last), num - 1,
                    LogspaceTarget(first, last, num, i))

\* the exact value of entry i is an integer
LogspaceIsInteger(first, last, num, i) ==
    BigCmp(BigMulPow(<<1>>, LogspaceFloor(first, last, num, i), num - 1),
           LogspaceTarget(first, last, num, i)) = 0

\* Entries the double arithmetic computes without rounding error: the
\* first one (10.0 ** 1.0), every one when last = first (all exponents are
\* 1.0), and the last one when log10(last) is a whole number.
LogspaceIsExact(first, last, num, i) ==
    \/ i = 0
    \/ last = first
    \/ i = num - 1 /\ last \in {1, 10, 100, 1000}

\* The values the truncating cast can give for entry i.  Where the exact
\* value is an integer s that the doubles only approximate (10 ** log10(s)
\* is s or a hair below s, depending on the platform's pow and log10), the
\* cast gives s or s - 1.  Elsewhere the rounding error is far smaller than
\* the distance to the next integer and the cast gives the floor.
LogspaceEntry(first, last, num, i) ==
    LET s == LogspaceFloor(first, last, num, i)
    IN  IF LogspaceIsInteger(first, last, num, i)
           /\ ~LogspaceIsExact(first, last, num, i)
        THEN {s - 1, s}
        ELSE {s}

RECURSIVE LogspaceFrom(_, _, _, _)
\* the possible arrays of entries i..num-1
LogspaceFrom(first, last, num, i) ==
    IF i = num
    THEN {<<>>}
    ELSE {<<h>> \o t : h \in LogspaceEntry(first, last, num, i),
                       t \in LogspaceFrom(first, last, num, i + 1)}

LogspaceInt(first, last, num) == LogspaceFrom(first, last, num, 0)

(***************************************************************************)
(* Panel notebook, cell "Split sizes": calc_split_sizes.                   *)
(***************************************************************************)
\* validation_fraction = 0.2 = 1/5
validation_fraction_num == 1
validation_fraction_den == 5
num_train_min == 10
num_training_sets == 6
max_size == 500

\* the largest dataset size the model draws
MaxSamples == 2510

\* int(np.floor(validation_fraction * num_samples))
FloorValidation(size) == (validation_fraction_num * size) \div validation_fraction_den

\* np.floor((1 - validation_fraction) * num_samples)
FloorTraining(size) ==
    ((validation_fraction_den - validation_fraction_num) * size)
        \div validation_fraction_den

\* a calc_split_sizes that forgot the cap on the validation set size
NumValidationUncapped(size) == FloorValidation(size)

NumValidation(size) == Min(FloorValidation(size), max_size)

NumTrainMax(size) == Min(FloorTraining(size), max_size)

\* the (num_validation, num_training) pairs calc_split_sizes can return
calc_split_sizes(size) ==
    {<<NumValidation(size), nt>> :
        nt \in LogspaceInt(num_train_min, NumTrainMax(size), num_training_sets)}

\* calc_split_sizes takes log10(num_train_max): it is defined from two
\* samples on (num_train_max >= 1).
SampleCounts == 2..MaxSamples

InitSplit ==
    /\ pc = "split_start"
    /\ num_samples \in SampleCounts
    /\ num_validation = None
    /\ num_training = None
    /\ SplitAlone

CalcSplitSizes ==
    /\ pc = "split_start"
    /\ \E r \in calc_split_sizes(num_samples) :
          /\ num_validation' = r[1]
          /\ num_training' = r[2]
    /\ pc' = "split_done"
    /\ UNCHANGED <<num_samples, notSplit>>

NextSplit == CalcSplitSizes

SpecSplit == InitSplit /\ [][NextSplit]_vars

(***************************************************************************)
(* Claims about calc_split_sizes (checked under SpecSplit).                *)
(***************************************************************************)
SplitDone == pc = "split_done"

C7_TrainingSizesIncrease ==
    SplitDone /\ NumTrainMax(num_samples) >= num_train_min =>
        /\ Len(num_training) = num_training_sets
        /\ num_training[1] = num_train_min
        /\ num_training[num_training_sets] = NumTrainMax(num_samples)
        /\ \A i \in 1..(num_training_sets - 1) :
               num_training[i] < num_training[i + 1]

(***************************************************************************)
(* Band-gap notebook: stats(ds).  A dataset is the list its samples('all') *)
(* returns; of an entry only the two fields stats reads are kept.          *)
(***************************************************************************)
CRYSTALLINITY_NONE == "CRYSTALLINITY_NONE"

\* the largest dataset the model draws
MaxCompounds == 2

Entries ==
    [temperature : {None, "300K"},
     crystallinity : {CRYSTALLINITY_NONE, "single"}]

BandGapDatasets == UNION {[1..k -> Entries] : k \in 0..MaxCompounds}

HasTemperature(e) == e.temperature # None
HasCrystallinity(e) == e.crystallinity # CRYSTALLINITY_NONE
HasBoth(e) == HasTemperature(e) /\ HasCrystallinity(e)

\* len([e for e in data if ...])
CountTemperature(data) ==
    Cardinality({i \in 1..Len(data) : HasTemperature(data[i])})
CountCrystallinity(data) ==
    Cardinality({i \in 1..Len(data) : HasCrystallinity(data[i])})
CountBoth(data) ==
    Cardinality({i \in 1..Len(data) : HasBoth(data[i])})

\* f"{a/b:4.1%}": a/b in tenths of a percent, rounded half to even
Permille(a, b) ==
    LET q == (1000 * a) \div b
        r == (1000 * a) % b
    IN  IF 2 * r < b THEN q
        ELSE IF 2 * r > b THEN q + 1
        ELSE IF q % 2 = 0 THEN q ELSE q + 1

\* one printed line: count, percentage, "without" count
StatsLine(count, total) ==
    [count |-> count, permille |-> Permille(count, total),
     without |-> total - count]

\* n = len(bg1.samples('all'))
StatsTotal(dataset, global) == Len(global)

\* what stats(dataset) prints, the global bg1 being `global`.  With n = 0
\* the first line is printed and the second raises ZeroDivisionError.
stats(dataset, global) ==
    LET total == StatsTotal(dataset, global)
        ntp == CountTemperature(dataset)
        ncr == CountCrystallinity(dataset)
        ntc == CountBoth(dataset)
    IN  IF total = 0
        THEN [n |-> total, lines |-> <<>>, raised |-> "ZeroDivisionError"]
        ELSE [n |-> total,
              lines |-> <<StatsLine(ntp, total), StatsLine(ncr, total),
                          StatsLine(ntc, total)>>,
              raised |-> None]

InitBand ==
    /\ pc = "band_loaded"
    /\ bg1 \in BandGapDatasets
    /\ ds = None
    /\ printed = None
    /\ BandAlone

Stats ==
    /\ pc \in {"band_loaded", "band_printed"}
    /\ \E d \in BandGapDatasets :
          /\ ds' = d
          /\ printed' = stats(d, bg1)
    /\ pc' = "band_printed"
    /\ UNCHANGED <<bg1, notBand>>

NextBand == Stats

SpecBand == InitBand /\ [][NextBand]_vars

\* C9: stats(ds) reports on the dataset it is given: the total n it prints,
\* and uses as denominator of the percentages and as minuend of the
\* "without" counts, is the number of samples of its argument ds.
C9_StatsCountsItsArgument ==
    pc = "band_printed" =>
        /\ printed.n = Len(ds)
        /\ \A i \in 1..Len(printed.lines) :
               /\ printed.lines[i].without = Len(ds) - printed.lines[i].count
               /\ printed.lines[i].permille =
                      Permille(printed.lines[i].count, Len(ds))

(***************************************************************************)
(* Watercolor notebook, sampling cell.                                     *)
(***************************************************************************)
\* 0.15 = 15/100
watercolor_fraction_num == 15
watercolor_fraction_den == 100
watercolor_first_size == 10
watercolor_num_sizes == 6

\* the largest dataset the model draws
MaxPigmentSamples == 400

\* round(x) of Python 3 for x = a/b: to the nearest integer, halves to even
RoundHalfEven(a, b) ==
    LET q == a \div b
        r == a % b
    IN  IF 2 * r < b THEN q
        ELSE IF 2 * r > b THEN q + 1
        ELSE IF q % 2 = 0 THEN q ELSE q + 1

\* m = round(dataset.num_samples * 0.15)
WatercolorValidationSize(num) ==
    RoundHalfEven(num * watercolor_fraction_num, watercolor_fraction_den)

\* a sampling cell that spaces the training sizes up to the whole dataset
WatercolorTrainingSizesToN(num, val) ==
    LogspaceInt(watercolor_first_size, num, watercolor_num_sizes)

\* np.asarray(np.logspace(1, np.log10(n-m), num=6), dtype=int)
WatercolorTrainingSizes(num, val) ==
    LogspaceInt(watercolor_first_size, num - val, watercolor_num_sizes)

\* log10(n - m) needs n - m >= 1: a dataset of at least one sample
PigmentSampleCounts == 1..MaxPigmentSamples

InitWater ==
    /\ pc = "water_loaded"
    /\ n \in PigmentSampleCounts
    /\ m = None
    /\ training_sizes = None
    /\ WaterAlone

SamplingCell ==
    /\ pc = "water_loaded"
    /\ m' = WatercolorValidationSize(n)
    /\ training_sizes' \in WatercolorTrainingSizes(n, m')
    /\ pc' = "water_sampled"
    /\ UNCHANGED <<n, notWater>>

NextWater == SamplingCell

SpecWater == InitWater /\ [][NextWater]_vars

RECURSIVE SeqMax(_)
SeqMax(q) == IF Len(q) = 1 THEN q[1] ELSE Max(q[1], SeqMax(Tail(q)))

\* C8 (as stated): m = round(0.15 * n), every one of the six training-set
\* sizes lies between 10 and n - m, and m + the largest training size <= n.
C8_SizesFitDataset ==
    pc = "water_sampled" =>
        /\ 2 * watercolor_fraction_den * m
              <= 2 * watercolor_fraction_num * n + watercolor_fraction_den
        /\ 2 * watercolor_fraction_den * m
              >= 2 * watercolor_fraction_num * n - watercolor_fraction_den
        /\ Len(training_sizes) = watercolor_num_sizes
        /\ \A i \in 1..Len(training_sizes) :
               /\ watercolor_first_size <= training_sizes[i]
               /\ training_sizes[i] <= n - m
        /\ m + SeqMax(training_sizes) <= n

\* C8 (amended): the same for every dataset with n - m >= 10, that is with
\* at least 12 samples; a smaller dataset has no room for the first
\* training size of 10.
C8_SizesFitDatasetOfTwelve ==
    pc = "water_sampled" /\ n - m >= watercolor_first_size =>
        /\ 2 * watercolor_fraction_den * m
              <= 2 * watercolor_fraction_num * n + watercolor_fraction_den
        /\ 2 * watercolor_fraction_den * m
              >= 2 * watercolor_fraction_num * n - watercolor_fraction_den
        /\ Len(training_sizes) = watercolor_num_sizes
        /\ \A i \in 1..Len(training_sizes) :
               /\ watercolor_first_size <= training_sizes[i]
               /\ training_sizes[i] <= n - m
        /\ m + SeqMax(training_sizes) <= n

\* a dataset with room to spare, whose last size the cast truncated
C8_Witness ==
    /\ pc = "water_sampled"
    /\ n - m > watercolor_first_size
    /\ training_sizes[1] = watercolor_first_size
    /\ training_sizes[watercolor_num_sizes] = n - m - 1

(***************************************************************************)
(* The smlb library, as far as the notebooks use it.  Its code is not in   *)
(* the sources: the definitions of this section follow the notebooks'      *)
(* narrative (what a sampler draws, what run() guards against, what a plot *)
(* exposes).                                                               *)
(***************************************************************************)
\* Constructors: an object is the record of its class and of the keyword
\* arguments it was given.
GridSampler(size, lo, hi, rng) ==
    [kind |-> "GridSampler", size |-> size, lo |-> lo, hi |-> hi, rng |-> rng]
RandomVectorSampler(size, rng) ==
    [kind |-> "RandomVectorSampler", size |-> size, rng |-> rng]
RandomSubsetSampler(size, rng) ==
    [kind |-> "RandomSubsetSampler", size |-> size, rng |-> rng]
VectorSpaceData(name, dimensions) ==
    [kind |-> "vector space", name |-> name, dimensions |-> dimensions]
FiniteData(name, size) ==
    [kind |-> "finite", name |-> name, num_samples |-> size]
SeededLearner(class, random_state) ==
    [kind |-> class, random_state |-> random_state]
UnseededLearner(class) == [kind |-> class]
LearningCurvePlot(target) ==
    [kind |-> "LearningCurvePlot", target |-> target, rendered |-> FALSE,
     curves |-> <<>>, auxiliary |-> [asymptotic_fits |-> <<>>]]
LearningCurveRegression(data, features, training, validation, learners, evaluations) ==
    [data |-> data, features |-> features, training |-> training,
     validation |-> validation, learners |-> learners,
     evaluations |-> evaluations,
     state |-> "constructed", raised |-> None,
     drawn |-> [validation |-> None, training |-> <<>>],
     pending |-> <<>>, scores |-> <<>>]
Unfitted == [kind |-> "unfitted"]
FittedTo(data) == [kind |-> "fitted", data |-> data.name]

RECURSIVE Power(_, _)
Power(b, e) == IF e = 0 THEN 1 ELSE b * Power(b, e - 1)

RECURSIVE GridSideFrom(_, _, _)
GridSideFrom(k, size, dims) ==
    IF Power(k, dims) >= size THEN k ELSE GridSideFrom(k + 1, size, dims)

\* points per axis of the smallest regular grid of at least `size` points
GridSide(size, dims) == GridSideFrom(1, size, dims)

\* What a GridSampler draws from a vector space: `size` of the k^dims
\* points of the regular grid with k points per axis, end points included,
\* namely those numbered start, start + 1, ... (mod k^dims).  A sampler of
\* size k^dims draws the whole grid.
GridSample(sampler, dims, start) ==
    LET k == GridSide(sampler.size, dims)
    IN  [kind |-> "grid", k |-> k, dims |-> dims,
         lo |-> sampler.lo, hi |-> sampler.hi, rng |-> sampler.rng,
         size |-> sampler.size, start |-> start % Power(k, dims)]

\* What a RandomVectorSampler draws: the first `size` vectors of the
\* stream its seed determines.
RandomSample(sampler) ==
    [kind |-> "random", rng |-> sampler.rng, size |-> sampler.size]

\* What a RandomSubsetSampler draws: `size` samples of the `available` ones
\* of a finite dataset; `part` says of which part of the dataset.
SubsetSample(sampler, part, available) ==
    [kind |-> "subset", part |-> part, rng |-> sampler.rng,
     size |-> sampler.size, available |-> available]

\* the grid indices a grid sample keeps
GridIndices(g) ==
    {(g.start + j) % Power(g.k, g.dims) : j \in 0..(g.size - 1)}

\* digit of coordinate c (1..dims) of grid point number idx
GridDigit(g, idx, c) == (idx \div Power(g.k, c - 1)) % g.k

\* coordinate value lo + a * (hi - lo) / (k - 1) as <<numerator, denominator>>
GridCoordinate(g, a) ==
    LET den == IF g.k = 1 THEN 1 ELSE g.k - 1
    IN  <<g.lo * den + a * (g.hi - g.lo), den>>

SameValue(x, y) == x[1] * y[2] = y[1] * x[2]

\* the digits of grid h with the value of digit a of grid g (one or none)
MatchingDigits(g, a, h) ==
    {b \in 0..(h.k - 1) : SameValue(GridCoordinate(g, a), GridCoordinate(h, b))}

\* point number idx of grid sample g is a point of the grid of h
OnGrid(g, idx, h) ==
    /\ g.dims = h.dims
    /\ \A c \in 1..g.dims : MatchingDigits(g, GridDigit(g, idx, c), h) # {}

RECURSIVE IndexOnFrom(_, _, _, _)
\* the number in grid h of point idx of g, coordinates c..dims
IndexOnFrom(g, idx, h, c) ==
    IF c > g.dims
    THEN 0
    ELSE (CHOOSE b \in MatchingDigits(g, GridDigit(g, idx, c), h) : TRUE)
            * Power(h.k, c - 1)
         + IndexOnFrom(g, idx, h, c + 1)

\* point number idx of grid sample g is one of the points h keeps
InGridSample(g, idx, h) ==
    /\ OnGrid(g, idx, h)
    /\ (IndexOnFrom(g, idx, h, 1) - h.start) % Power(h.k, h.dims) < h.size

\* the points of a that are points of b, for two grid samples
GridShared(a, b) == {idx \in GridIndices(a) : InGridSample(a, idx, b)}

\* Two drawn sets share a sample.  A vector drawn at random from a
\* continuous domain is not a point of a grid; two streams of random vectors
\* meet when they come from the same seed; the training subsets of a finite
\* dataset are drawn from what the validation subset left, and share nothing
\* with it.
SharesSample(a, b) ==
    IF a.kind = "grid" /\ b.kind = "grid"
    THEN \E idx \in GridIndices(a) : InGridSample(a, idx, b)
    ELSE IF a.kind = "random" /\ b.kind = "random"
    THEN a.rng = b.rng /\ a.size > 0 /\ b.size > 0
    ELSE FALSE

\* every sample of a is a sample of b
SubsetOfSample(a, b) ==
    IF a.kind = "grid" /\ b.kind = "grid"
    THEN \A idx \in GridIndices(a) : InGridSample(a, idx, b)
    ELSE IF a.kind = "random" /\ b.kind = "random"
    THEN a.rng = b.rng /\ a.size <= b.size
    ELSE FALSE

(***************************************************************************)
(* LearningCurveRegression.run(): draw the validation set and the training *)
(* sets, refuse to go on when a training set shares a sample with the      *)
(* validation set, evaluate every (training set, learner) pair, hand the   *)
(* results to the evaluations.                                             *)
(***************************************************************************)
\* schedules the model tries: rotations of the four loop orders
MaxRotation == 1
\* outcomes of a generator that was given no seed
MaxEntropy == 1
\* resolution of the modelled error measure
score_levels == 4

NumAvailable(data) == IF data.kind = "finite" THEN data.num_samples ELSE 0

Draw(sampler, data, part, available, phase) ==
    IF sampler.kind = "GridSampler"
    THEN GridSample(sampler, data.dimensions, phase + sampler.rng)
    ELSE IF sampler.kind = "RandomVectorSampler"
    THEN RandomSample(sampler)
    ELSE SubsetSample(sampler, part, available)

\* a subset sampler cannot draw more samples than there are
Drawable(set) == set.kind = "subset" => set.size <= set.available

DrawAll(w, phase) ==
    LET v == Draw(w.validation, w.data, "all", NumAvailable(w.data), phase)
    IN  [validation |-> v,
         training |->
            [i \in 1..Len(w.training) |->
                Draw(w.training[i], w.data, "complement",
                     NumAvailable(w.data) - v.size, phase)]]

\* a run() that goes on whatever the training sets share with the
\* validation set
OverlapsUnchecked(d) == FALSE

\* the check of run(): some training set shares a sample with the
\* validation set
Overlaps(d) ==
    \E i \in 1..Len(d.training) : SharesSample(d.training[i], d.validation)

\* the workflow right after the sets are drawn and checked
Started(w, phase) ==
    LET d == DrawAll(w, phase)
    IN  IF ~Drawable(d.validation)
           \/ \E i \in 1..Len(d.training) : ~Drawable(d.training[i])
        THEN [w EXCEPT !.state = "failed",
                       !.raised = "InvalidParameterError", !.drawn = d]
        ELSE IF Overlaps(d)
        THEN [w EXCEPT !.state = "failed",
                       !.raised = "BenchmarkError", !.drawn = d]
        ELSE [w EXCEPT !.state = "running", !.drawn = d]

\* the (training set, learner) pairs, in the order of the nested loops
TrainingMajor(w) ==
    [i \in 1..(Len(w.training) * Len(w.learners)) |->
        <<((i - 1) \div Len(w.learners)) + 1, ((i - 1) % Len(w.learners)) + 1>>]
LearnerMajor(w) ==
    [i \in 1..(Len(w.training) * Len(w.learners)) |->
        <<((i - 1) % Len(w.training)) + 1, ((i - 1) \div Len(w.training)) + 1>>]
Reverse(q) == [i \in 1..Len(q) |-> q[Len(q) + 1 - i]]
Rotate(q, r) == [i \in 1..Len(q) |-> q[((i - 1 + r) % Len(q)) + 1]]

\* the orders in which the pairs may be evaluated
Schedules(w) ==
    {Rotate(o, r) : o \in {TrainingMajor(w), Reverse(TrainingMajor(w)),
                           LearnerMajor(w), Reverse(LearnerMajor(w))},
                    r \in 0..MaxRotation}

IsSeeded(learner) == "random_state" \in DOMAIN learner

\* The error of learner task[2] fit to training set task[1], measured on the
\* validation set: a function of the sets drawn and of the learner's seed.
\* A learner that was given no seed seeds itself from the session.
Score(w, task, entropy) ==
    LET l == w.learners[task[2]]
        t == w.drawn.training[task[1]]
        v == w.drawn.validation
        seed == IF IsSeeded(l) THEN l.random_state ELSE 1 + entropy
    IN  (task[2] + seed + t.size + t.rng + v.size + v.rng) % score_levels

\* offset and slope of the learning curve of learner li
AsymptoticFit(w, li) ==
    [offset |-> w.scores[<<Len(w.training), li>>],
     slope |-> w.scores[<<Len(w.training), li>>] - w.scores[<<1, li>>]]

Auxiliary(w) ==
    [asymptotic_fits |->
        [li \in 1..Len(w.learners) |-> AsymptoticFit(w, li)]]

\* the curves a plot draws: one per learner, in the workflow's order
Curves(w) == [li \in 1..Len(w.learners) |-> w.learners[li].kind]

Range(q) == {q[i] : i \in 1..Len(q)}

\* run() is called: the sets are drawn and checked
RunStarts ==
    /\ workflow.state = "constructed"
    /\ LET w == Started(workflow, prng_phase)
       IN  IF w.state = "failed"
           THEN workflow' = w
           ELSE \E order \in Schedules(w) :
                   workflow' = [w EXCEPT !.pending = order]
    /\ UNCHANGED <<fitted, plots, prng_phase, os_entropy, earlier>>

\* one (training set, learner) pair is evaluated
RunEvaluates ==
    /\ workflow.state = "running"
    /\ workflow.pending # <<>>
    /\ LET task == Head(workflow.pending)
       IN  /\ workflow' =
                [workflow EXCEPT
                    !.pending = Tail(@),
                    !.scores =
                        @ @@ (task :> Score(workflow, task, os_entropy))]
           /\ fitted' =
                [fitted EXCEPT ![workflow.learners[task[2]].kind] =
                                  FittedTo(workflow.data)]
    /\ UNCHANGED <<plots, prng_phase, os_entropy, earlier>>

\* every pair is evaluated: the evaluations get the results
RunFinishes ==
    /\ workflow.state = "running"
    /\ workflow.pending = <<>>
    /\ workflow' = [workflow EXCEPT !.state = "done"]
    /\ plots' =
         [t \in DOMAIN plots |->
            IF t \in Range(workflow.evaluations)
            THEN [plots[t] EXCEPT !.rendered = TRUE,
                                  !.curves = Curves(workflow),
                                  !.auxiliary = Auxiliary(workflow)]
            ELSE plots[t]]
    /\ UNCHANGED <<fitted, prng_phase, os_entropy, earlier>>

(***************************************************************************)
(* Friedman notebook.  Its cells, in order; `nb` holds the names the cells *)
(* bind.  The first run() raises and the notebook goes on to its second    *)
(* workflow.                                                               *)
(***************************************************************************)
friedman_dimensions == 5
validation_grid_side == 7
FriedmanTrainingSizes == <<10, 19, 37, 73, 143, 278, 542, 1056, 2055, 4000>>

\* starting points of the library's generator the model tries
MaxPhase == 3

FriedmanNames ==
    [dataset |-> None, validation_set |-> None, training_sizes |-> None,
     training_sets |-> None, learner_gpr_skl |-> None,
     learner_rf_skl |-> None, learning_curve |-> None, run_output |-> None]

InitFriedman ==
    /\ pc = "fr_start"
    /\ nb = FriedmanNames
    /\ workflow = None
    /\ fitted = <<>>
    /\ plots = <<>>
    /\ prng_phase \in 0..MaxPhase
    /\ os_entropy \in 0..MaxEntropy
    /\ earlier = None
    /\ SizesIdle

\* dataset = Friedman1979Data(dimensions=5)
FriedmanDataset == VectorSpaceData("Friedman1979Data", friedman_dimensions)

\* validation_set = smlb.GridSampler(size=7**5, domain=[0,1], rng=0)
FriedmanValidationSet ==
    GridSampler(Power(validation_grid_side, friedman_dimensions), 0, 1, 0)

\* grid training sets taken from the largest size down
FriedmanGridTrainingSetsLargestFirst(sizes) ==
    [i \in 1..Len(sizes) |-> GridSampler(sizes[Len(sizes) + 1 - i], 0, 1, 0)]

\* tuple(smlb.GridSampler(size=size, domain=[0,1], rng=0) for size in ...)
FriedmanGridTrainingSets(sizes) ==
    [i \in 1..Len(sizes) |-> GridSampler(sizes[i], 0, 1, 0)]

\* a second workflow whose training samplers were not replaced
FriedmanRandomTrainingSetsStillGrid(sizes) == FriedmanGridTrainingSets(sizes)

\* tuple(smlb.RandomVectorSampler(size=size, rng=0) for size in ...)
FriedmanRandomTrainingSets(sizes) ==
    [i \in 1..Len(sizes) |-> RandomVectorSampler(sizes[i], 0)]

FriedmanLearnerGpr == SeededLearner("GaussianProcessRegressionSklearn", 0)
FriedmanLearnerRf == SeededLearner("RandomForestRegressionSklearn", 0)

FrCellDataset ==
    /\ pc = "fr_start"
    /\ nb' = [nb EXCEPT !.dataset = FriedmanDataset]
    /\ pc' = "fr_dataset"
    /\ UNCHANGED <<workflow, fitted, plots, session, notSizes>>

FrCellValidationSet ==
    /\ pc = "fr_dataset"
    /\ nb' = [nb EXCEPT !.validation_set = FriedmanValidationSet]
    /\ pc' = "fr_validation"
    /\ UNCHANGED <<workflow, fitted, plots, session, notSizes>>

FrCellTrainingSets ==
    /\ pc = "fr_validation"
    /\ nb' = [nb EXCEPT
                !.training_sizes = FriedmanTrainingSizes,
                !.training_sets = FriedmanGridTrainingSets(FriedmanTrainingSizes)]
    /\ pc' = "fr_training"
    /\ UNCHANGED <<workflow, fitted, plots, session, notSizes>>

FrCellLearners ==
    /\ pc = "fr_training"
    /\ nb' = [nb EXCEPT !.learner_gpr_skl = FriedmanLearnerGpr,
                        !.learner_rf_skl = FriedmanLearnerRf]
    /\ fitted' = (FriedmanLearnerGpr.kind :> Unfitted)
                    @@ (FriedmanLearnerRf.kind :> Unfitted)
    /\ pc' = "fr_learners"
    /\ UNCHANGED <<workflow, plots, session, notSizes>>

\* workflow = LearningCurveRegression(data=dataset, training=training_sets,
\*     validation=validation_set, learners=[learner_rf_skl, learner_gpr_skl])
FrCellWorkflow ==
    /\ pc = "fr_learners"
    /\ workflow' =
         LearningCurveRegression(nb.dataset, "IdentityFeatures",
             nb.training_sets, nb.validation_set,
             <<nb.learner_rf_skl, nb.learner_gpr_skl>>, <<>>)
    /\ pc' = "fr_workflow"
    /\ UNCHANGED <<nb, fitted, plots, session, notSizes>>

\* workflow.run(), first workflow
FrCellRun ==
    /\ pc = "fr_workflow"
    /\ RunStarts
    /\ pc' = IF workflow'.state = "failed" THEN "fr_raised" ELSE "fr_running"
    /\ nb' = [nb EXCEPT !.run_output =
                IF workflow'.state = "failed" THEN workflow'.raised ELSE None]
    /\ UNCHANGED notSizes

\* training_sets = tuple(smlb.RandomVectorSampler(...) ...)
FrCellTrainingSets2 ==
    /\ pc \in {"fr_raised", "fr_ran"}
    /\ nb' = [nb EXCEPT
                !.training_sets = FriedmanRandomTrainingSets(nb.training_sizes)]
    /\ pc' = "fr_training2"
    /\ UNCHANGED <<workflow, fitted, plots, session, notSizes>>

\* learning_curve = smlb.LearningCurvePlot(target=ax, ...); workflow =
\* LearningCurveRegression(..., evaluations=[learning_curve,])
FrCellWorkflow2 ==
    /\ pc = "fr_training2"
    /\ plots' = plots @@ ("ax" :> LearningCurvePlot("ax"))
    /\ nb' = [nb EXCEPT !.learning_curve = "ax"]
    /\ workflow' =
         LearningCurveRegression(nb.dataset, "IdentityFeatures",
             nb.training_sets, nb.validation_set,
             <<nb.learner_rf_skl, nb.learner_gpr_skl>>, <<"ax">>)
    /\ pc' = "fr_workflow2"
    /\ UNCHANGED <<fitted, session, notSizes>>

\* workflow.run(), second workflow (same cell)
FrCellRun2 ==
    /\ pc = "fr_workflow2"
    /\ RunStarts
    /\ pc' = IF workflow'.state = "failed" THEN "fr_raised2" ELSE "fr_running2"
    /\ UNCHANGED <<nb, notSizes>>

FrRunEvaluates ==
    /\ pc \in {"fr_running", "fr_running2"}
    /\ RunEvaluates
    /\ UNCHANGED <<pc, nb, notSizes>>

\* run() returns; after the second one, ax.legend(...) ends the cell
FrRunFinishes ==
    /\ pc \in {"fr_running", "fr_running2"}
    /\ RunFinishes
    /\ pc' = IF pc = "fr_running" THEN "fr_ran" ELSE "fr_done"
    /\ UNCHANGED <<nb, notSizes>>

NextFriedman ==
    \/ FrCellDataset
    \/ FrCellValidationSet
    \/ FrCellTrainingSets
    \/ FrCellLearners
    \/ FrCellWorkflow
    \/ FrCellRun
    \/ FrCellTrainingSets2
    \/ FrCellWorkflow2
    \/ FrCellRun2
    \/ FrRunEvaluates
    \/ FrRunFinishes

SpecFriedman == InitFriedman /\ [][NextFriedman]_vars

(***************************************************************************)
(* Claims about the Friedman notebook (checked under SpecFriedman).        *)
(***************************************************************************)
\* run() has been called on the workflow object
RunInvoked ==
    /\ pc \in {"fr_raised", "fr_running", "fr_ran", "fr_training2",
               "fr_raised2", "fr_running2", "fr_done"}
    /\ workflow.state # "constructed"

TrainingSharesWithValidation ==
    \E i \in 1..Len(workflow.drawn.training) :
        SharesSample(workflow.drawn.training[i], workflow.drawn.validation)

\* C1: whenever run() is invoked with a training set that shares at least
\* one sample with the validation set, the run ends in failure: it raises,
\* computes no score and hands nothing to its evaluations.
C1_OverlapFailsTheRun ==
    RunInvoked /\ TrainingSharesWithValidation =>
        /\ workflow.state = "failed"
        /\ workflow.raised = "BenchmarkError"
        /\ DOMAIN workflow.scores = {}
        /\ \A t \in Range(workflow.evaluations) : ~plots[t].rendered

\* the first run, which drew its training sets from grids, has failed
C1_Witness ==
    /\ pc = "fr_raised"
    /\ RunInvoked
    /\ TrainingSharesWithValidation
    /\ workflow.raised = "BenchmarkError"

\* C3: the validation set is the 7 x 7 x 7 x 7 x 7 grid of 16807 points on
\* [0,1]^5, and every one of the 10 points of the first training set is a
\* point of the validation set.
C3_FirstTrainingSetInValidationSet ==
    pc = "fr_raised" =>
        LET v == workflow.drawn.validation
            t == workflow.drawn.training[1]
        IN  /\ v.k = 7 /\ v.dims = 5 /\ v.lo = 0 /\ v.hi = 1
            /\ Cardinality(GridIndices(v)) = 16807
            /\ t.dims = 5 /\ t.lo = 0 /\ t.hi = 1
            /\ Cardinality(GridIndices(t)) = 10
            /\ SubsetOfSample(t, v)
            /\ Cardinality(GridShared(t, v)) = 10

\* the ten training points lie on the 2 x 2 x 2 x 2 x 2 subgrid of corners
C3_Witness ==
    /\ pc = "fr_raised"
    /\ workflow.drawn.training[1].k = 2
    /\ workflow.drawn.training[1].size = 10
    /\ GridShared(workflow.drawn.training[1], workflow.drawn.validation) # {}

\* C10: the failure of the first run() leaves the dataset, the validation
\* sampler and the two learners as they were constructed; the second
\* workflow, built from them with only the training samplers replaced by
\* RandomVectorSampler, does not fail, goes on until it is done, and then
\* the LearningCurvePlot has its results.
C10_SecondWorkflowCompletes ==
    /\ pc \in {"fr_raised", "fr_training2", "fr_workflow2", "fr_raised2",
               "fr_running2", "fr_done"} =>
          /\ nb.run_output = "BenchmarkError"
          /\ nb.dataset = FriedmanDataset
          /\ nb.validation_set = FriedmanValidationSet
          /\ nb.learner_rf_skl = FriedmanLearnerRf
          /\ nb.learner_gpr_skl = FriedmanLearnerGpr
    /\ pc \in {"fr_raised", "fr_training2", "fr_workflow2"} =>
          \A k \in DOMAIN fitted : fitted[k] = Unfitted
    /\ pc \in {"fr_workflow2", "fr_raised2", "fr_running2", "fr_done"} =>
          /\ workflow.data = nb.dataset
          /\ workflow.validation = nb.validation_set
          /\ workflow.learners = <<nb.learner_rf_skl, nb.learner_gpr_skl>>
          /\ Len(workflow.training) = Len(FriedmanTrainingSizes)
          /\ \A i \in 1..Len(workflow.training) :
                 /\ workflow.training[i].kind = "RandomVectorSampler"
                 /\ workflow.training[i].size = FriedmanTrainingSizes[i]
          /\ workflow.state # "failed"
          /\ pc # "fr_raised2"
    /\ pc = "fr_workflow2" => workflow.state = "constructed"
    /\ pc = "fr_running2" => ENABLED (FrRunEvaluates \/ FrRunFinishes)
    /\ pc = "fr_done" =>
          /\ workflow.state = "done"
          /\ DOMAIN workflow.scores =
                (1..Len(workflow.training)) \X (1..Len(workflow.learners))
          /\ plots["ax"].rendered
          /\ Len(plots["ax"].auxiliary.asymptotic_fits) = 2

\* the second workflow is done after the first one failed
C10_Witness ==
    /\ pc = "fr_done"
    /\ nb.run_output = "BenchmarkError"
    /\ workflow.state = "done"
    /\ plots["ax"].rendered


(***************************************************************************)
(* Panel notebook: six datasets on a 2 x 3 grid, four learners, one        *)
(* learning-curve workflow per dataset.  Rows and columns count from 0 as  *)
(* in the notebook; `nb` holds the names the cells bind.                   *)
(***************************************************************************)
num_seeds == 100
panel_rows == 2
panel_cols == 3
synthetic_samples == 650

\* samples of each experimental dataset (the notebook loads them from files)
ExperimentalSamples == 650

Rows == 0..(panel_rows - 1)
Cols == 0..(panel_cols - 1)

\* prng.random.split(count): count new seeds, told apart by their position
Split(rng, count) == [k \in 1..count |-> rng * count + k]

\* the value of the k-th seeds.pop() from now, and the list after k pops
Popped(q, k) == q[Len(q) + 1 - k]
AfterPops(q, k) == SubSeq(q, 1, Len(q) - k)

PanelNames ==
    [seeds |-> None, datasets |-> None, features |-> None,
     split_sizes |-> None, validation_samplers |-> None,
     training_samplers |-> None, learners |-> None, plots |-> None,
     pb |-> None, row |-> None, col |-> None, out |-> None, fits |-> None]

NoEarlier == [done |-> FALSE, split_sizes |-> <<>>, fits |-> <<>>]

InitPanel ==
    /\ pc = "p_start"
    /\ nb = PanelNames
    /\ workflow = None
    /\ fitted = <<>>
    /\ plots = <<>>
    /\ prng_phase \in 0..MaxPhase
    /\ os_entropy \in 0..MaxEntropy
    /\ earlier = NoEarlier
    /\ SizesIdle

\* a seeds list that was not flipped before it is popped from the end
PanelSeedsNotFlipped == Split(0, num_seeds)

\* seeds = list(np.flip(prng.random.split(100)))
PanelSeeds == Reverse(Split(0, num_seeds))

\* datasets = np.asarray([[...], [...]])
PanelDatasets ==
    (0 :> (0 :> FiniteData("BandGapsStrehlowCook1973Dataset",
                           ExperimentalSamples)
           @@ 1 :> FiniteData("SuperconductorsCitrine2016Dataset",
                              ExperimentalSamples)
           @@ 2 :> FiniteData("CleanEnergyProjectDataset",
                              ExperimentalSamples)))
    @@ (1 :> (0 :> VectorSpaceData("Friedman1979Data", 6)
              @@ 1 :> VectorSpaceData("FriedmanSilverman1989Data", 10)
              @@ 2 :> VectorSpaceData("Schwefel261981Data", 15)))

\* features = np.asarray([[...], [...]])
PanelFeatures ==
    [r \in Rows |-> [c \in Cols |->
        IF r = 0 THEN "MatminerCompositionFeatures" ELSE "IdentityFeatures"]]

\* num_samples = data if isinstance(data, int) else data.num_samples, for
\* the arguments of the split_sizes cell
SplitArgument(datasets, r, c) ==
    IF r = 0 THEN datasets[r][c].num_samples ELSE synthetic_samples

\* split_sizes = np.asarray([...]): the tables the cell can produce.  One
\* platform computes one result for one argument.
PanelSplitSizes(datasets) ==
    LET args == {SplitArgument(datasets, r, c) : r \in Rows, c \in Cols}
        results == UNION {calc_split_sizes(a) : a \in args}
        tables == {f \in [args -> results] :
                      \A a \in args : f[a] \in calc_split_sizes(a)}
    IN  {[r \in Rows |-> [c \in Cols |->
            f[SplitArgument(datasets, r, c)]]] : f \in tables}

\* the sampler classes of the two rows
SubsetOrVector(r, size, rng) ==
    IF r = 0 THEN RandomSubsetSampler(size, rng)
    ELSE RandomVectorSampler(size, rng)

\* validation_samplers = np.array([...]): one seeds.pop() per dataset,
\* row 0 first
PanelValidationSamplers(split_sizes, seeds) ==
    [r \in Rows |-> [c \in Cols |->
        SubsetOrVector(r, split_sizes[r][c][1],
                       Popped(seeds, r * panel_cols + c + 1))]]

\* training_samplers = np.array([...]): one seeds.pop() per training size,
\* row 0 first, dataset by dataset
PanelTrainingSamplers(split_sizes, seeds) ==
    [r \in Rows |-> [c \in Cols |->
        [i \in 1..num_training_sets |->
            SubsetOrVector(r, split_sizes[r][c][2][i],
                Popped(seeds,
                    (r * panel_cols + c) * num_training_sets + i))]]]

\* learners = [...]
PanelLearners(seeds) ==
    <<SeededLearner("RandomForestRegressionSklearn", Popped(seeds, 1)),
      SeededLearner("ExtremelyRandomizedTreesRegressionSklearn",
                    Popped(seeds, 2)),
      SeededLearner("GradientBoostedTreesRegressionSklearn",
                    Popped(seeds, 3)),
      UnseededLearner("RandomForestRegressionLolo")>>

\* plots = [[smlb.LearningCurvePlot(target=ax[row][col], ...) ...] ...]
PanelPlots ==
    [t \in Rows \X Cols |-> LearningCurvePlot(t)]

\* pb = tqdm.tqdm(total=datasets.shape[0]*datasets.shape[1], leave=False)
PanelProgress == [total |-> panel_rows * panel_cols, n |-> 0]

\* a loop whose workflows all draw on the first plot
PanelWorkflowOnFirstPlot(names, r, c) ==
    LearningCurveRegression(names.datasets[r][c], names.features[r][c],
        names.training_samplers[r][c], names.validation_samplers[r][c],
        names.learners, <<names.plots[0][0]>>)

\* a loop that takes every dataset from the first row
PanelWorkflowFirstRowData(names, r, c) ==
    LearningCurveRegression(names.datasets[0][c], names.features[r][c],
        names.training_samplers[r][c], names.validation_samplers[r][c],
        names.learners, <<names.plots[r][c]>>)

\* wf = LearningCurveRegression(data=datasets[row][col], ...,
\*     learners=learners, evaluations=[plots[row][col]])
PanelWorkflow(names, r, c) ==
    LearningCurveRegression(names.datasets[r][c], names.features[r][c],
        names.training_samplers[r][c], names.validation_samplers[r][c],
        names.learners, <<names.plots[r][c]>>)

\* fits = np.asfarray([...]); fits = np.reshape(fits, (6, 4, 2)): one
\* (offset, slope) pair per plot and learner, plots in row-major order.
\* The array takes that shape only if every plot has an entry per learner.
PanelFits(names, shown) ==
    [k \in 0..(panel_rows * panel_cols - 1) |->
        LET entries == shown[names.plots[k \div panel_cols]
                                        [k % panel_cols]]
                          .auxiliary.asymptotic_fits
        IN  [li \in 1..Len(entries) |->
                <<entries[li].offset, entries[li].slope>>]]
FitsReshape(names, shown) ==
    \A t \in DOMAIN shown :
        Len(shown[t].auxiliary.asymptotic_fits) = Len(names.learners)

PCellSeeds ==
    /\ pc = "p_start"
    /\ nb' = [nb EXCEPT !.seeds = PanelSeeds]
    /\ pc' = "p_seeds"
    /\ UNCHANGED <<workflow, fitted, plots, session, notSizes>>

PCellDatasets ==
    /\ pc = "p_seeds"
    /\ nb' = [nb EXCEPT !.datasets = PanelDatasets,
                        !.features = PanelFeatures]
    /\ pc' = "p_datasets"
    /\ UNCHANGED <<workflow, fitted, plots, session, notSizes>>

\* An execution that repeats an earlier one runs on the same platform and
\* computes the same sizes.
PCellSplitSizes ==
    /\ pc = "p_datasets"
    /\ \E table \in PanelSplitSizes(nb.datasets) :
          /\ earlier.done => table = earlier.split_sizes
          /\ nb' = [nb EXCEPT !.split_sizes = table]
    /\ pc' = "p_split"
    /\ UNCHANGED <<workflow, fitted, plots, session, notSizes>>

PCellSamplers ==
    /\ pc = "p_split"
    /\ LET validation == panel_rows * panel_cols
           training == validation * num_training_sets
       IN  nb' = [nb EXCEPT
             !.validation_samplers =
                 PanelValidationSamplers(nb.split_sizes, nb.seeds),
             !.training_samplers =
                 PanelTrainingSamplers(nb.split_sizes,
                                       AfterPops(nb.seeds, validation)),
             !.seeds = AfterPops(nb.seeds, validation + training)]
    /\ pc' = "p_samplers"
    /\ UNCHANGED <<workflow, fitted, plots, session, notSizes>>

PCellLearners ==
    /\ pc = "p_samplers"
    /\ LET learners == PanelLearners(nb.seeds)
       IN  /\ nb' = [nb EXCEPT
                 !.learners = learners,
                 !.seeds = AfterPops(nb.seeds,
                     Cardinality({i \in 1..Len(learners) :
                                     IsSeeded(learners[i])}))]
           /\ fitted' = [k \in {learners[i].kind : i \in 1..Len(learners)}
                            |-> Unfitted]
    /\ pc' = "p_learners"
    /\ UNCHANGED <<workflow, plots, session, notSizes>>

\* the plotting cell up to its loop
PCellPlots ==
    /\ pc = "p_learners"
    /\ plots' = PanelPlots
    /\ nb' = [nb EXCEPT
                !.plots = [r \in Rows |-> [c \in Cols |-> <<r, c>>]],
                !.pb = PanelProgress, !.row = 0, !.col = 0]
    /\ pc' = "p_loop"
    /\ UNCHANGED <<workflow, fitted, session, notSizes>>

\* the loop body down to wf.run()
PLoopWorkflow ==
    /\ pc = "p_loop"
    /\ workflow' = PanelWorkflow(nb, nb.row, nb.col)
    /\ pc' = "p_workflow"
    /\ UNCHANGED <<nb, fitted, plots, session, notSizes>>

\* wf.run(): an exception ends the cell and the notebook's execution
PLoopRun ==
    /\ pc = "p_workflow"
    /\ RunStarts
    /\ pc' = IF workflow'.state = "failed" THEN "p_raised" ELSE "p_running"
    /\ UNCHANGED <<nb, notSizes>>

PRunEvaluates ==
    /\ pc = "p_running"
    /\ RunEvaluates
    /\ UNCHANGED <<pc, nb, notSizes>>

\* wf.run() returns; pb.update(1); the loops go on to the next dataset or
\* the cell ends with the legend and plt.show()
PRunFinishes ==
    /\ pc = "p_running"
    /\ RunFinishes
    /\ LET last_col == nb.col = panel_cols - 1
           last_row == nb.row = panel_rows - 1
       IN  /\ nb' = [nb EXCEPT
                 !.pb.n = @ + 1,
                 !.col = IF last_col THEN (IF last_row THEN @ ELSE 0)
                         ELSE @ + 1,
                 !.row = IF last_col /\ ~last_row THEN @ + 1 ELSE @]
           /\ pc' = IF last_col /\ last_row THEN "p_shown" ELSE "p_loop"
    /\ UNCHANGED notSizes

\* plots[0][0].auxiliary
PCellAuxiliary ==
    /\ pc = "p_shown"
    /\ nb' = [nb EXCEPT !.out = plots[nb.plots[0][0]].auxiliary]
    /\ pc' = "p_auxiliary"
    /\ UNCHANGED <<workflow, fitted, plots, session, notSizes>>

PCellFits ==
    /\ pc = "p_auxiliary"
    /\ IF FitsReshape(nb, plots)
       THEN /\ nb' = [nb EXCEPT !.fits = PanelFits(nb, plots)]
            /\ pc' = "p_done"
       ELSE /\ nb' = nb
            /\ pc' = "p_raised"
    /\ UNCHANGED <<workflow, fitted, plots, session, notSizes>>

NextPanel ==
    \/ PCellSeeds
    \/ PCellDatasets
    \/ PCellSplitSizes
    \/ PCellSamplers
    \/ PCellLearners
    \/ PCellPlots
    \/ PLoopWorkflow
    \/ PLoopRun
    \/ PRunEvaluates
    \/ PRunFinishes
    \/ PCellAuxiliary
    \/ PCellFits

SpecPanel == InitPanel /\ [][NextPanel]_vars

\* The notebook is executed again from the top in a fresh kernel ("Restart
\* & Run All"): every name is gone, the code and its root seed are the
\* same, the session is a new one.  What the first execution computed is
\* kept aside for comparison.
KernelRestart ==
    /\ pc = "p_done"
    /\ ~earlier.done
    /\ earlier' = [done |-> TRUE, split_sizes |-> nb.split_sizes,
                   fits |-> nb.fits]
    /\ nb' = PanelNames
    /\ workflow' = None
    /\ fitted' = <<>>
    /\ plots' = <<>>
    /\ os_entropy' \in 0..MaxEntropy
    /\ pc' = "p_start"
    /\ UNCHANGED <<prng_phase, notSizes>>

NextRerun ==
    \/ NextPanel
    \/ KernelRestart

SpecRerun == InitPanel /\ [][NextRerun]_vars

\* the states in which a workflow of the panel has been constructed
HandedToWorkflow ==
    pc \in {"p_workflow", "p_running", "p_shown", "p_auxiliary", "p_done"}

\* C2: two executions of the panel notebook from the same root seed and
\* the same configuration produce identical results (the table of fits),
\* whatever the order in which each run evaluated its (learner, training
\* set) pairs.
C2_SameSeedSameResults ==
    pc = "p_done" /\ earlier.done => nb.fits = earlier.fits

\* C4: every learner handed to a workflow of the panel notebook was
\* constructed with a seed, each of the four entries of the learners list.
C4_EveryLearnerSeeded ==
    HandedToWorkflow =>
        /\ Len(workflow.learners) = 4
        /\ \A i \in 1..Len(workflow.learners) :
               IsSeeded(workflow.learners[i])

\* C6: when the cells after the loop read a plot's auxiliary result, the
\* run() of every workflow has completed and rendered its plot, and each
\* plot's asymptotic_fits holds one entry with an offset and a slope per
\* learner, four of them, in the order of the learners list.
C6_AuxiliaryReadAfterRun ==
    pc \in {"p_auxiliary", "p_done"} =>
        /\ nb.pb.n = nb.pb.total
        /\ workflow.state = "done"
        /\ nb.out = plots[nb.plots[0][0]].auxiliary
        /\ \A t \in DOMAIN plots :
              /\ plots[t].rendered
              /\ Len(plots[t].auxiliary.asymptotic_fits) = 4
              /\ plots[t].curves =
                    [li \in 1..4 |-> nb.learners[li].kind]
              /\ \A li \in 1..4 :
                    DOMAIN plots[t].auxiliary.asymptotic_fits[li]
                        = {"offset", "slope"}
        /\ \A li \in 1..4 :
              plots[Head(workflow.evaluations)]
                  .auxiliary.asymptotic_fits[li] = AsymptoticFit(workflow, li)
        /\ pc = "p_done" =>
              \A k \in DOMAIN nb.fits : Len(nb.fits[k]) = Len(nb.learners)

\* both cells have read: the first plot's result is shown, the table of
\* fits has six rows of four pairs
C6_Witness ==
    /\ pc = "p_done"
    /\ Len(nb.out.asymptotic_fits) = 4
    /\ Cardinality(DOMAIN nb.fits) = 6
    /\ \A k \in DOMAIN nb.fits : Len(nb.fits[k]) = 4

\* the states in which the samplers, and the learners, have been constructed
SamplersBuilt == pc \notin {"p_start", "p_seeds", "p_datasets", "p_split"}
LearnersBuilt == SamplersBuilt /\ pc # "p_samplers"

\* the seed of the k-th sampler constructed: the validation samplers row by
\* row, then the training samplers row by row, dataset by dataset and size
\* by size
SamplerSeed(k) ==
    LET datasets == panel_rows * panel_cols
    IN  IF k <= datasets
        THEN nb.validation_samplers[(k - 1) \div panel_cols]
                                   [(k - 1) % panel_cols].rng
        ELSE LET j == k - datasets - 1
                 d == j \div num_training_sets
             IN  nb.training_samplers[d \div panel_cols][d % panel_cols]
                                     [(j % num_training_sets) + 1].rng
NumSamplers == panel_rows * panel_cols * (1 + num_training_sets)

\* the learners that were given a seed, in the order of the list
SeededLearners == SelectSeq(nb.learners, IsSeeded)

\* the seeds of the objects constructed so far, in the order of their
\* construction
HandedOut ==
    [k \in 1..NumSamplers |-> SamplerSeed(k)]
        \o (IF LearnersBuilt
            THEN [i \in 1..Len(SeededLearners) |->
                     SeededLearners[i].random_state]
            ELSE <<>>)

\* what prng.random.split(100) produced
SplitSeeds == Split(0, num_seeds)

\* C11: the k-th seeded object constructed (validation samplers, training
\* samplers, learners) holds the k-th seed of prng.random.split(100), no
\* two objects hold the same element, and what is left of the list are the
\* seeds not yet handed out.
C11_SeedsInSplitOrder ==
    SamplersBuilt =>
        LET handed == HandedOut
        IN  /\ handed = SubSeq(SplitSeeds, 1, Len(handed))
            /\ Cardinality({handed[k] : k \in 1..Len(handed)}) = Len(handed)
            /\ Len(handed) >= NumSamplers
            /\ LearnersBuilt => Len(handed) = NumSamplers + 3
            /\ nb.seeds = Reverse(SubSeq(SplitSeeds, Len(handed) + 1,
                                         num_seeds))

\* all 45 seeded objects exist: the last learner with a seed holds the
\* 45th seed and 55 seeds are left
C11_Witness ==
    /\ pc = "p_learners"
    /\ SamplerSeed(1) = SplitSeeds[1]
    /\ SamplerSeed(NumSamplers) = SplitSeeds[NumSamplers]
    /\ nb.learners[3].random_state = SplitSeeds[NumSamplers + 3]
    /\ Len(nb.seeds) = num_seeds - NumSamplers - 3

\* the place of a panel position in row-major order, from 0
RowMajor(r, c) == r * panel_cols + c

\* the plots that some completed run has rendered
Rendered == {t \in DOMAIN plots : plots[t].rendered}

\* C12: the loop runs one workflow per panel position, one at a time in
\* row-major order; the workflow at (row, col) is built from the entries
\* of datasets, features, training_samplers, validation_samplers and plots
\* at (row, col); each plot is rendered by the one run at its position;
\* the progress bar counts the completed runs and stands at its total of
\* 6 when the loop has ended.
C12_OneWorkflowPerPosition ==
    /\ pc \in {"p_loop", "p_workflow", "p_running"} =>
          /\ nb.row \in Rows /\ nb.col \in Cols
          /\ nb.pb.n = RowMajor(nb.row, nb.col)
          /\ nb.pb.n < nb.pb.total
          /\ Rendered = {t \in DOMAIN plots : RowMajor(t[1], t[2]) < nb.pb.n}
    /\ pc = "p_loop" /\ nb.pb.n > 0 => workflow.state = "done"
    /\ pc \in {"p_workflow", "p_running"} =>
          /\ workflow.data = nb.datasets[nb.row][nb.col]
          /\ workflow.features = nb.features[nb.row][nb.col]
          /\ workflow.training = nb.training_samplers[nb.row][nb.col]
          /\ workflow.validation = nb.validation_samplers[nb.row][nb.col]
          /\ workflow.learners = nb.learners
          /\ workflow.evaluations = <<nb.plots[nb.row][nb.col]>>
          /\ nb.plots[nb.row][nb.col] = <<nb.row, nb.col>>
          /\ workflow.state # "done"
    /\ pc \in {"p_shown", "p_auxiliary", "p_done"} =>
          /\ nb.pb.n = nb.pb.total
          /\ nb.pb.total = 6
          /\ Rendered = DOMAIN plots
          /\ Cardinality(DOMAIN plots) = 6
          /\ workflow.data = nb.datasets[panel_rows - 1][panel_cols - 1]

\* the loop has ended after its sixth run, that of the last position
C12_Witness ==
    /\ pc = "p_shown"
    /\ nb.pb.n = 6
    /\ nb.row = 1 /\ nb.col = 2
    /\ workflow.state = "done"
    /\ workflow.evaluations = <<nb.plots[1][2]>>

====
